---- MODULE Spec2Model ----
(***************************************************************************)
(* Model of src/main.py: the daily risk report script.                     *)
(*                                                                         *)
(* One run of the script is the body of the __main__ block: construct a    *)
(* MungerRiskSystem, fetch_data, calculate_risk, save_to_sheet, notify,    *)
(* exit.  Every call to an external service (FRED, Yahoo Finance, Google   *)
(* Sheets, LINE) is one step that either succeeds or raises.               *)
(*                                                                         *)
(* Numbers: indicator values are fixed-point integers in hundredths, so    *)
(* 0.5 is 50, 30 is 3000 and 30.01 is 3001.                                *)
(* Dates: get_today_str() yields a "YYYY-MM-DD" string; the model's clock  *)
(* is an index into Calendar, a run of consecutive days across a new year. *)
(***************************************************************************)
EXTENDS Integers, Sequences, FiniteSets, TLC

\* ------------------------------------------------------------- bounds ----
MaxRuns  == 3      \* runs started in one behaviour
MaxDate  == 3      \* days the clock may reach (index into Calendar)
MaxCalls == 2      \* calculate_risk invocations on one object (EngineSpec)

\* The script processes that may be started (the cron trigger and a retry).
Procs == {1, 2}

\* ------------------------------------------------------- dates, tabs ----
\* strftime("%Y-%m-%d") of the clock's day, in UTC+8.
Calendar ==
  <<"2025-12-30", "2025-12-31", "2026-01-01", "2026-01-02", "2026-01-03",
    "2026-01-04">>

get_today_str(day) == Calendar[day]

\* f"Data_{get_today_str()[:4]}": the worksheet title for the year of a date string.
YearTitle(datestr) ==
  IF datestr \in {"2025-12-30", "2025-12-31"} THEN "Data_2025" ELSE "Data_2026"

\* The spreadsheet has two worksheets (tabs), at index 0 and 1.
Tabs == {0, 1}
TabTitles == {"Sheet1", "Data_2025", "Data_2026"}

\* -------------------------------------------------- python dictionary ----
EmptyDict == [k \in {} |-> 0]
Put(d, k, v) == (k :> v) @@ d
Has(d, k) == k \in DOMAIN d

\* ------------------------------------------------------ input values ----
\* Values a provider may return (hundredths); each set holds the values on
\* and next to the thresholds of the rule that reads it.
YieldValues == {-10, 0, 100}
NfciValues  == {-50, 0, 20, 50, 51}
VixValues   == {1500, 2000, 2001, 2500, 3000, 3001}
\* <<hyg_ief_curr, hyg_ief_ma60>>
CreditValues == {<<80, 75>>, <<75, 80>>, <<100, 90>>, <<80, 80>>}
\* <<spy_close, spy_ma200>>
SpyValues == {<<40000, 42000>>, <<45000, 40000>>, <<40000, 40000>>}

\* A market download: the latest sample of every series the script derives.
Market(vs, cs, ss, lags) ==
  [vix : vs, credit : cs, spy : ss, lag : lags]

EngineMarkets == Market(VixValues, CreditValues, SpyValues, {0})
RunMarkets == Market({1500}, {<<100, 90>>}, {<<45000, 40000>>}, {0})
RunYields == {-10}
RunNfcis  == {20}

VARIABLES
  today,        \* the clock: index of the current day in Calendar
  runs,         \* number of runs started so far
  titles,       \* titles[t]: title of worksheet t of the spreadsheet
  sheet,        \* sheet[t]: the rows of worksheet t, oldest first
  outbox,       \* the messages the LINE channel accepted, oldest first
  returns,      \* what each returned save_to_sheet call returned (history)
  pc,           \* pc[p]: where process p is in the script
  date,         \* date[p]: the run's execution day
  data,         \* self.data
  score,        \* self.score
  level,        \* self.level
  reasons,      \* self.reasons
  calls,        \* number of calculate_risk invocations on the object (history)
  results,      \* results of the completed evaluations on the object (history)
  ws,           \* the worksheet chosen by save_to_sheet
  all_records,  \* the rows read by get_all_values
  is_saved,     \* the value returned by save_to_sheet: "None", "True", "False"
  stage,        \* the step that raised, "" when none did
  sentNow,      \* the pushes this run attempted: <<kind, delivered>> (history)
  exitCode      \* the exit status of the finished run, -1 while there is none

vars ==
  <<today, runs, titles, sheet, outbox, returns, pc, date, data, score, level,
    reasons, calls, results, ws, all_records, is_saved, stage, sentNow,
    exitCode>>

storeVars == <<titles, sheet>>
clockVars == <<today, runs>>
objVars == <<data, score, level, reasons, calls, results>>
saveVars == <<ws, all_records, is_saved>>
runVars == <<stage, sentNow, exitCode>>

\* ---------------------------------------------------------- __init__ ----
\* MungerRiskSystem.__init__: the fields of a fresh object.
InitData == EmptyDict
InitScore == 0
InitLevel == 0
InitReasons == <<>>

NewSystem(p) ==
  /\ data' = [data EXCEPT ![p] = InitData]
  /\ score' = [score EXCEPT ![p] = InitScore]
  /\ level' = [level EXCEPT ![p] = InitLevel]
  /\ reasons' = [reasons EXCEPT ![p] = InitReasons]
  /\ calls' = [calls EXCEPT ![p] = 0]
  /\ results' = [results EXCEPT ![p] = <<>>]

\* -------------------------------------------------------- fetch_data ----
\* Part A (FRED): the except clause of the try around both series.
FredDefaults_KeepsFetched(d) ==
  IF Has(d, "yield_spread") THEN Put(d, "nfci", 0)
  ELSE Put(Put(d, "yield_spread", 0), "nfci", 0)

FredDefaults(d) == Put(Put(d, "yield_spread", 0), "nfci", 0)

\* Part B (Yahoo Finance): the latest sample of each derived series.
YahooData(d, m, day) ==
  LET d1 == Put(d, "us_date", Calendar[day - m.lag])
      d2 == Put(d1, "vix", m.vix)
      d3 == Put(d2, "spy_close", m.spy[1])
      d4 == Put(d3, "spy_ma200", m.spy[2])
      d5 == Put(d4, "hyg_ief_curr", m.credit[1])
  IN Put(d5, "hyg_ief_ma60", m.credit[2])

\* self.data['yield_spread'] = self.fred.get_series('T10Y3M').iloc[-1]
FetchYield(p, ys) ==
  /\ pc[p] = "fetch_fred"
  /\ \E y \in ys : data' = [data EXCEPT ![p] = Put(@, "yield_spread", y)]
  /\ pc' = [pc EXCEPT ![p] = "fetch_nfci"]
  /\ UNCHANGED <<clockVars, storeVars, outbox, returns, date, score, level,
                 reasons, calls, results, saveVars, runVars>>

\* self.data['nfci'] = self.fred.get_series('NFCI').iloc[-1]
FetchNfci(p, ns) ==
  /\ pc[p] = "fetch_nfci"
  /\ \E n \in ns : data' = [data EXCEPT ![p] = Put(@, "nfci", n)]
  /\ pc' = [pc EXCEPT ![p] = "fetch_yahoo"]
  /\ UNCHANGED <<clockVars, storeVars, outbox, returns, date, score, level,
                 reasons, calls, results, saveVars, runVars>>

\* Either get_series call raised: control enters the except clause.
FetchSeriesFails(p) ==
  /\ pc[p] \in {"fetch_fred", "fetch_nfci"}
  /\ pc' = [pc EXCEPT ![p] = "fred_except"]
  /\ UNCHANGED <<clockVars, storeVars, outbox, returns, date, objVars, saveVars,
                 runVars>>

FredExcept_Raises(p) ==
  /\ pc[p] = "fred_except"
  /\ pc' = [pc EXCEPT ![p] = "except"]
  /\ stage' = [stage EXCEPT ![p] = "fetch"]
  /\ UNCHANGED <<clockVars, storeVars, outbox, returns, date, objVars, saveVars,
                 sentNow, exitCode>>

\* except Exception: both fields take the default and fetch_data goes on.
FredExcept(p) ==
  /\ pc[p] = "fred_except"
  /\ data' = [data EXCEPT ![p] = FredDefaults(@)]
  /\ pc' = [pc EXCEPT ![p] = "fetch_yahoo"]
  /\ UNCHANGED <<clockVars, storeVars, outbox, returns, date, score, level,
                 reasons, calls, results, saveVars, runVars>>

FetchFred(p, ys, ns) ==
  \/ FetchYield(p, ys)
  \/ FetchNfci(p, ns)
  \/ FetchSeriesFails(p)
  \/ FredExcept(p)

FetchYahoo(p, ms) ==
  /\ pc[p] = "fetch_yahoo"
  /\ \E m \in ms :
       /\ m.lag < date[p]
       /\ data' = [data EXCEPT ![p] = YahooData(data[p], m, date[p])]
  /\ pc' = [pc EXCEPT ![p] = "rule1"]
  /\ UNCHANGED <<clockVars, storeVars, outbox, returns, date, score, level,
                 reasons, calls, results, saveVars, runVars>>

\* Mutant: the except clause of part B logs and goes on, like that of part A.
FetchYahooFails_Swallows(p) ==
  /\ pc[p] = "fetch_yahoo"
  /\ pc' = [pc EXCEPT ![p] = "rule1"]
  /\ UNCHANGED <<clockVars, storeVars, outbox, returns, date, objVars, saveVars,
                 runVars>>

\* The download or the derivation raised: re-raised to the caller.
FetchYahooFails(p) ==
  /\ pc[p] = "fetch_yahoo"
  /\ pc' = [pc EXCEPT ![p] = "except"]
  /\ stage' = [stage EXCEPT ![p] = "fetch"]
  /\ UNCHANGED <<clockVars, storeVars, outbox, returns, date, objVars, saveVars,
                 sentNow, exitCode>>

\* ---------------------------------------------------- calculate_risk ----
\* f"{x:.1f}" of a value in hundredths, as tenths (the input sets hold no ties).
Fmt1(v) == <<"", (v + 5) \div 10>>
\* f"{x:.2f}" of a value in hundredths: the hundredths themselves, sign kept.
Fmt2(v) == IF v < 0 THEN <<"-", 0 - v>> ELSE <<"", v>>

None == [pts |-> 0, why |-> <<>>]
Fire(n, sev, label, args) == [pts |-> n, why |-> <<<<sev, label>> \o args>>]

\* 1. yield-curve inversion
Rule1(d) ==
  IF d["yield_spread"] < 0
    THEN Fire(3, "red", "yield curve inverted", <<Fmt2(d["yield_spread"])>>)
    ELSE None

\* Mutant: the upper tier of rule 2 takes its boundary in (>= 0.5).
Rule2_Inclusive(d) ==
  IF d["nfci"] >= 50
    THEN Fire(2, "red", "tight financial conditions", <<Fmt2(d["nfci"])>>)
    ELSE IF d["nfci"] > 0
      THEN Fire(1, "yellow", "mild tightening", <<>>)
      ELSE None

\* 2. financial stress (NFCI)
Rule2(d) ==
  IF d["nfci"] > 50
    THEN Fire(2, "red", "tight financial conditions", <<Fmt2(d["nfci"])>>)
    ELSE IF d["nfci"] > 0
      THEN Fire(1, "yellow", "mild tightening", <<>>)
      ELSE None

\* Mutant: the credit comparison is turned round.
Rule3_Reversed(d) ==
  IF d["hyg_ief_curr"] > d["hyg_ief_ma60"]
    THEN Fire(2, "yellow", "credit spread weakening", <<>>)
    ELSE None

\* 3. credit trend (HYG/IEF against its 60-sample mean)
Rule3(d) ==
  IF d["hyg_ief_curr"] < d["hyg_ief_ma60"]
    THEN Fire(2, "yellow", "credit spread weakening", <<>>)
    ELSE None

\* Mutant: the upper tier of rule 4 takes its boundary in (>= 30).
Rule4_Inclusive(d) ==
  IF d["vix"] >= 3000
    THEN Fire(2, "red", "extreme fear", <<Fmt1(d["vix"])>>)
    ELSE IF d["vix"] > 2000
      THEN Fire(1, "yellow", "elevated hedging demand", <<>>)
      ELSE None

\* Mutant: the second test of rule 4 is an if of its own, not an elif.
Rule4_BothFire(d) ==
  LET a == IF d["vix"] > 3000
             THEN Fire(2, "red", "extreme fear", <<Fmt1(d["vix"])>>)
             ELSE None
      b == IF d["vix"] > 2000
             THEN Fire(1, "yellow", "elevated hedging demand", <<>>)
             ELSE None
  IN [pts |-> a.pts + b.pts, why |-> a.why \o b.why]

\* 4. volatility (VIX)
Rule4(d) ==
  IF d["vix"] > 3000
    THEN Fire(2, "red", "extreme fear", <<Fmt1(d["vix"])>>)
    ELSE IF d["vix"] > 2000
      THEN Fire(1, "yellow", "elevated hedging demand", <<>>)
      ELSE None

\* 5. trend following (SPY against its 200-sample mean)
Rule5(d) ==
  IF d["spy_close"] < d["spy_ma200"]
    THEN Fire(1, "red", "benchmark below long-term trend", <<>>)
    ELSE None

\* Mutant: the breakpoint between levels 2 and 3 is one too low.
LevelOf_Low(s) ==
  IF s = 0 THEN 0
  ELSE IF s <= 2 THEN 1
  ELSE IF s <= 3 THEN 2
  ELSE 3

\* The level of a total score.
LevelOf(s) ==
  IF s = 0 THEN 0
  ELSE IF s <= 2 THEN 1
  ELSE IF s <= 4 THEN 2
  ELSE 3

\* Mutant: the score is assigned (=) where it should be added to (+=).
ApplyRule_Assign(p, here, next, r) ==
  /\ pc[p] = here
  /\ score' = [score EXCEPT ![p] = r.pts]
  /\ reasons' = [reasons EXCEPT ![p] = @ \o r.why]
  /\ calls' = [calls EXCEPT ![p] = IF here = "rule1" THEN @ + 1 ELSE @]
  /\ pc' = [pc EXCEPT ![p] = next]
  /\ UNCHANGED <<clockVars, storeVars, outbox, returns, date, data, level,
                 results, saveVars, runVars>>

\* Mutant: the reason is inserted at the front of the list.
ApplyRule_Prepend(p, here, next, r) ==
  /\ pc[p] = here
  /\ score' = [score EXCEPT ![p] = @ + r.pts]
  /\ reasons' = [reasons EXCEPT ![p] = r.why \o @]
  /\ calls' = [calls EXCEPT ![p] = IF here = "rule1" THEN @ + 1 ELSE @]
  /\ pc' = [pc EXCEPT ![p] = next]
  /\ UNCHANGED <<clockVars, storeVars, outbox, returns, date, data, level,
                 results, saveVars, runVars>>

\* One rule of calculate_risk: self.score += pts; self.reasons.append(reason).
ApplyRule(p, here, next, r) ==
  /\ pc[p] = here
  /\ score' = [score EXCEPT ![p] = @ + r.pts]
  /\ reasons' = [reasons EXCEPT ![p] = @ \o r.why]
  /\ calls' = [calls EXCEPT ![p] = IF here = "rule1" THEN @ + 1 ELSE @]
  /\ pc' = [pc EXCEPT ![p] = next]
  /\ UNCHANGED <<clockVars, storeVars, outbox, returns, date, data, level,
                 results, saveVars, runVars>>

YieldRule(p)  == ApplyRule(p, "rule1", "rule2", Rule1(data[p]))
StressRule(p) == ApplyRule(p, "rule2", "rule3", Rule2(data[p]))
CreditRule(p) == ApplyRule(p, "rule3", "rule4", Rule3(data[p]))
VixRule(p)    == ApplyRule(p, "rule4", "rule5", Rule4(data[p]))
TrendRule(p)  == ApplyRule(p, "rule5", "classify", Rule5(data[p]))

Classify(p) ==
  /\ pc[p] = "classify"
  /\ level' = [level EXCEPT ![p] = LevelOf(score[p])]
  /\ results' = [results EXCEPT ![p] =
       Append(@, [score |-> score[p], level |-> LevelOf(score[p]),
                  reasons |-> reasons[p]])]
  /\ pc' = [pc EXCEPT ![p] = "open"]
  /\ UNCHANGED <<clockVars, storeVars, outbox, returns, date, data, score,
                 reasons, calls, saveVars, runVars>>

calculate_risk(p) ==
  \/ YieldRule(p)
  \/ StressRule(p)
  \/ CreditRule(p)
  \/ VixRule(p)
  \/ TrendRule(p)
  \/ Classify(p)

\* ----------------------------------------------------- save_to_sheet ----
Header == <<"Execute_Date", "US_Date", "Level", "Score", "Reasons", "Raw_Data">>

\* ", ".join(self.reasons) and json.dumps(self.data): the cell texts.
JoinReasons(rs) == [sep |-> ", ", parts |-> rs]
Dumps(d) == [json |-> d]

\* The row of this run (columns A..F).
Row(day, d, lv, sc, rs) ==
  <<get_today_str(day),
    IF Has(d, "us_date") THEN d["us_date"] ELSE "",
    lv, sc, JoinReasons(rs), Dumps(d)>>

\* sheet.worksheet(title) inside try, sheet.get_worksheet(0) in the bare except:
\* the tab titled `want` when the lookup returns one, the first tab otherwise
\* (no such title, or the lookup raised for any other reason).
Worksheet(ttl, want, lookupOk) ==
  LET found == {t \in Tabs : ttl[t] = want}
  IN IF lookupOk /\ found # {} THEN CHOOSE t \in found : TRUE ELSE 0

\* The idempotency test: more than one row and the last row's column A is today.
AlreadyExecuted(rows, todaystr) ==
  /\ Len(rows) > 1
  /\ rows[Len(rows)][1] = todaystr

\* A step of the run raised: control passes to the except clause of __main__.
Raise(p, here, what) ==
  /\ pc[p] = here
  /\ pc' = [pc EXCEPT ![p] = "except"]
  /\ stage' = [stage EXCEPT ![p] = what]
  /\ UNCHANGED <<clockVars, storeVars, outbox, returns, date, objVars, saveVars,
                 sentNow, exitCode>>

\* json.loads(GCP_JSON), authorize, client.open_by_key(SHEET_KEY)
OpenSheet(p) ==
  /\ pc[p] = "open"
  /\ pc' = [pc EXCEPT ![p] = "worksheet"]
  /\ UNCHANGED <<clockVars, storeVars, outbox, returns, date, objVars, saveVars,
                 runVars>>

OpenSheetFails(p) == Raise(p, "open", "save")

SelectWorksheet(p) ==
  /\ pc[p] = "worksheet"
  /\ \E lookupOk \in BOOLEAN :
       ws' = [ws EXCEPT ![p] =
         Worksheet(titles, YearTitle(get_today_str(date[p])), lookupOk)]
  /\ pc' = [pc EXCEPT ![p] = "read"]
  /\ UNCHANGED <<clockVars, storeVars, outbox, returns, date, objVars,
                 all_records, is_saved, runVars>>

\* get_worksheet(0) raised inside the except clause.
SelectWorksheetFails(p) == Raise(p, "worksheet", "save")

\* all_records = worksheet.get_all_values()
ReadAll(p) ==
  /\ pc[p] = "read"
  /\ all_records' = [all_records EXCEPT ![p] = sheet[ws[p]]]
  /\ pc' = [pc EXCEPT ![p] = "check"]
  /\ UNCHANGED <<clockVars, storeVars, outbox, returns, date, objVars, ws,
                 is_saved, runVars>>

ReadAllFails(p) == Raise(p, "read", "save")

\* "Today already executed. Skip." : return False
SkipDuplicate(p) ==
  /\ pc[p] = "check"
  /\ AlreadyExecuted(all_records[p], get_today_str(date[p]))
  /\ is_saved' = [is_saved EXCEPT ![p] = "False"]
  /\ returns' = Append(returns,
       [date |-> get_today_str(date[p]), ret |-> "False"])
  /\ pc' = [pc EXCEPT ![p] = "notify"]
  /\ UNCHANGED <<clockVars, storeVars, outbox, date, objVars, ws,
                 all_records, runVars>>

\* Mutant: the header is written whenever no record was read.
PrepareRow_HeaderIfNoRecord(p) ==
  /\ pc[p] = "check"
  /\ ~AlreadyExecuted(all_records[p], get_today_str(date[p]))
  /\ pc' = [pc EXCEPT ![p] =
       IF Len(all_records[p]) <= 1 THEN "header" ELSE "append"]
  /\ UNCHANGED <<clockVars, storeVars, outbox, returns, date, objVars, saveVars,
                 runVars>>

\* Not a duplicate: go on to write, the header first when nothing was read.
PrepareRow(p) ==
  /\ pc[p] = "check"
  /\ ~AlreadyExecuted(all_records[p], get_today_str(date[p]))
  /\ pc' = [pc EXCEPT ![p] =
       IF Len(all_records[p]) = 0 THEN "header" ELSE "append"]
  /\ UNCHANGED <<clockVars, storeVars, outbox, returns, date, objVars, saveVars,
                 runVars>>

\* Mutant: a row whose date equals that of the last row replaces it.
AppendRow_Upsert(sh, t, r) ==
  IF sh[t] # <<>> /\ sh[t][Len(sh[t])][1] = r[1]
    THEN [sh EXCEPT ![t] = [@ EXCEPT ![Len(@)] = r]]
    ELSE [sh EXCEPT ![t] = Append(@, r)]

\* Mutant: insert_row(row, 1) in place of append_row(row).
AppendRow_InsertTop(sh, t, r) == [sh EXCEPT ![t] = <<r>> \o @]

\* worksheet.append_row(r): r becomes the last row of the worksheet.
AppendRow(sh, t, r) == [sh EXCEPT ![t] = Append(@, r)]

AppendHeader(p) ==
  /\ pc[p] = "header"
  /\ sheet' = AppendRow(sheet, ws[p], Header)
  /\ pc' = [pc EXCEPT ![p] = "append"]
  /\ UNCHANGED <<clockVars, titles, outbox, returns, date, objVars, saveVars,
                 runVars>>

AppendHeaderFails(p) == Raise(p, "header", "save")

\* worksheet.append_row(row); return True
AppendRecord(p) ==
  /\ pc[p] = "append"
  /\ sheet' = AppendRow(sheet, ws[p],
       Row(date[p], data[p], level[p], score[p], reasons[p]))
  /\ is_saved' = [is_saved EXCEPT ![p] = "True"]
  /\ returns' = Append(returns,
       [date |-> get_today_str(date[p]), ret |-> "True"])
  /\ pc' = [pc EXCEPT ![p] = "notify"]
  /\ UNCHANGED <<clockVars, titles, outbox, date, objVars, ws,
                 all_records, runVars>>

AppendRecordFails(p) == Raise(p, "append", "save")

save_to_sheet(p) ==
  \/ OpenSheet(p)
  \/ OpenSheetFails(p)
  \/ SelectWorksheet(p)
  \/ SelectWorksheetFails(p)
  \/ ReadAll(p)
  \/ ReadAllFails(p)
  \/ SkipDuplicate(p)
  \/ PrepareRow(p)
  \/ AppendHeader(p)
  \/ AppendHeaderFails(p)
  \/ AppendRecord(p)
  \/ AppendRecordFails(p)

\* ------------------------------------------------- send_line, notify ----
\* send_line(msg): one push to the LINE channel.  The outbox holds what the
\* channel accepted; a push that raised leaves it as it is, and the exception
\* is printed and swallowed.
send_line(box, msg, delivered) ==
  IF delivered THEN Append(box, msg) ELSE box

\* emoji_map.get(self.level, fallback)
Glyph(lv) ==
  IF lv = 0 THEN "green"
  ELSE IF lv = 1 THEN "yellow"
  ELSE IF lv = 2 THEN "orange"
  ELSE IF lv = 3 THEN "red"
  ELSE "white"

StableText == <<"", "market foundation stable">>
Advisory == "review exposure"

\* Mutant: the advisory is added from level 1 on.
Summary_AdvisoryFromLevel1(day, lv, sc, rs) ==
  [kind |-> "summary",
   date |-> get_today_str(day),
   glyph |-> Glyph(lv),
   level |-> lv,
   score |-> sc,
   lines |-> IF rs # <<>> THEN rs ELSE <<StableText>>,
   suffix |-> IF lv >= 1 THEN <<Advisory>> ELSE <<>>]

\* The summary text built by notify.
Summary(day, lv, sc, rs) ==
  [kind |-> "summary",
   date |-> get_today_str(day),
   glyph |-> Glyph(lv),
   level |-> lv,
   score |-> sc,
   lines |-> IF rs # <<>> THEN rs ELSE <<StableText>>,
   suffix |-> IF lv >= 2 THEN <<Advisory>> ELSE <<>>]

\* The text built by the except clause of __main__.
ErrorText(what) == [kind |-> "error", text |-> what]

\* Mutant: the early return of notify is missing, the summary goes out anyway.
NotifySkip_Sends(p) ==
  /\ pc[p] = "notify"
  /\ is_saved[p] # "True"
  /\ outbox' = send_line(outbox,
       Summary(date[p], level[p], score[p], reasons[p]), TRUE)
  /\ sentNow' = [sentNow EXCEPT ![p] = Append(@, <<"summary", TRUE>>)]
  /\ pc' = [pc EXCEPT ![p] = "success"]
  /\ UNCHANGED <<clockVars, storeVars, returns, date, objVars, saveVars,
                 stage, exitCode>>

\* notify(is_saved) when is_saved is False: returns at once.
NotifySkip(p) ==
  /\ pc[p] = "notify"
  /\ is_saved[p] # "True"
  /\ pc' = [pc EXCEPT ![p] = "success"]
  /\ UNCHANGED <<clockVars, storeVars, outbox, returns, date, objVars, saveVars,
                 runVars>>

\* Mutant: send_line lets the failure of the push escape to __main__.
NotifySend_Escalates(p) ==
  /\ pc[p] = "notify"
  /\ is_saved[p] = "True"
  /\ \E delivered \in BOOLEAN :
       /\ outbox' = send_line(outbox,
            Summary(date[p], level[p], score[p], reasons[p]), delivered)
       /\ sentNow' = [sentNow EXCEPT ![p] = Append(@, <<"summary", delivered>>)]
       /\ pc' = [pc EXCEPT ![p] = IF delivered THEN "success" ELSE "except"]
       /\ stage' = [stage EXCEPT ![p] = IF delivered THEN @ ELSE "notify"]
  /\ UNCHANGED <<clockVars, storeVars, returns, date, objVars, saveVars,
                 exitCode>>

\* notify(is_saved) when is_saved is True: builds the summary and pushes it.
NotifySend(p) ==
  /\ pc[p] = "notify"
  /\ is_saved[p] = "True"
  /\ \E delivered \in BOOLEAN :
       /\ outbox' = send_line(outbox,
            Summary(date[p], level[p], score[p], reasons[p]), delivered)
       /\ sentNow' = [sentNow EXCEPT ![p] = Append(@, <<"summary", delivered>>)]
  /\ pc' = [pc EXCEPT ![p] = "success"]
  /\ UNCHANGED <<clockVars, storeVars, returns, date, objVars, saveVars,
                 stage, exitCode>>

notify(p) == NotifySkip(p) \/ NotifySend(p)

\* ---------------------------------------------------------- __main__ ----
\* The script is started: system = MungerRiskSystem().
Begin(p) ==
  /\ pc[p] = "idle"
  /\ runs < MaxRuns
  /\ runs' = runs + 1
  /\ date' = [date EXCEPT ![p] = today]
  /\ NewSystem(p)
  /\ UNCHANGED <<today, storeVars, outbox, returns, saveVars, sentNow, exitCode>>

Quiet == \A q \in Procs : pc[q] = "idle"

\* A scheduled run: no other run of the script is in progress.
StartRun(p) ==
  /\ Quiet
  /\ Begin(p)
  /\ stage' = [stage EXCEPT ![p] = ""]
  /\ pc' = [pc EXCEPT ![p] = "fetch_fred"]

\* The constructor raised (Fred() without an API key).
StartRunFails(p) ==
  /\ Quiet
  /\ Begin(p)
  /\ stage' = [stage EXCEPT ![p] = "init"]
  /\ pc' = [pc EXCEPT ![p] = "except"]

\* The interpreter exits: the object and the locals of save_to_sheet are gone.
\* What the run returned, raised and pushed is kept for the record.
EndRun(p, code) ==
  /\ exitCode' = [exitCode EXCEPT ![p] = code]
  /\ pc' = [pc EXCEPT ![p] = "done"]
  /\ NewSystem(p)
  /\ ws' = [ws EXCEPT ![p] = 0]
  /\ all_records' = [all_records EXCEPT ![p] = <<>>]
  /\ UNCHANGED <<clockVars, storeVars, returns, date, is_saved, stage>>

\* print("執行成功"); the interpreter exits with status 0.
ExitSuccess(p) ==
  /\ pc[p] = "success"
  /\ EndRun(p, 0)
  /\ UNCHANGED <<outbox, sentNow>>

\* Mutant: the except clause reports the error but lacks sys.exit(1).
ExitFailure_Status0(p) ==
  /\ pc[p] = "except"
  /\ \E delivered \in BOOLEAN :
       /\ outbox' = send_line(outbox, ErrorText(stage[p]), delivered)
       /\ sentNow' = [sentNow EXCEPT ![p] = Append(@, <<"error", delivered>>)]
  /\ EndRun(p, 0)

\* except Exception: send_line(error_msg); sys.exit(1)
ExitFailure(p) ==
  /\ pc[p] = "except"
  /\ \E delivered \in BOOLEAN :
       /\ outbox' = send_line(outbox, ErrorText(stage[p]), delivered)
       /\ sentNow' = [sentNow EXCEPT ![p] = Append(@, <<"error", delivered>>)]
  /\ EndRun(p, 1)

\* The finished process is forgotten by the system that started it.
Reap(p) ==
  /\ pc[p] = "done"
  /\ pc' = [pc EXCEPT ![p] = "idle"]
  /\ date' = [date EXCEPT ![p] = 0]
  /\ is_saved' = [is_saved EXCEPT ![p] = "None"]
  /\ stage' = [stage EXCEPT ![p] = ""]
  /\ sentNow' = [sentNow EXCEPT ![p] = <<>>]
  /\ exitCode' = [exitCode EXCEPT ![p] = -1]
  /\ UNCHANGED <<clockVars, storeVars, outbox, returns, objVars, ws, all_records>>

\* Midnight (UTC+8) passes.  A run reads the clock as one date (date[p]), so
\* only the midnights between runs are modelled.
Tick ==
  /\ Quiet
  /\ today < MaxDate
  /\ today' = today + 1
  /\ UNCHANGED <<runs, storeVars, outbox, returns, pc, date, objVars, saveVars,
                 runVars>>

\* ------------------------------------------------------ specification ----
\* No process has been started yet.
NoRunYet ==
  /\ today = 1
  /\ runs = 0
  /\ outbox = <<>>
  /\ returns = <<>>
  /\ pc = [p \in Procs |-> "idle"]
  /\ date = [p \in Procs |-> 0]
  /\ data = [p \in Procs |-> InitData]
  /\ score = [p \in Procs |-> InitScore]
  /\ level = [p \in Procs |-> InitLevel]
  /\ reasons = [p \in Procs |-> InitReasons]
  /\ calls = [p \in Procs |-> 0]
  /\ results = [p \in Procs |-> <<>>]
  /\ ws = [p \in Procs |-> 0]
  /\ all_records = [p \in Procs |-> <<>>]
  /\ is_saved = [p \in Procs |-> "None"]
  /\ stage = [p \in Procs |-> ""]
  /\ sentNow = [p \in Procs |-> <<>>]
  /\ exitCode = [p \in Procs |-> -1]

\* A new spreadsheet: two worksheets with distinct titles, nothing written.
Init ==
  /\ titles \in {f \in [Tabs -> TabTitles] : f[0] # f[1]}
  /\ sheet = [t \in Tabs |-> <<>>]
  /\ NoRunYet

fetch_data(p) ==
  \/ FetchFred(p, RunYields, RunNfcis)
  \/ FetchYahoo(p, RunMarkets)
  \/ FetchYahooFails(p)

Main(p) ==
  \/ StartRun(p)
  \/ StartRunFails(p)
  \/ fetch_data(p)
  \/ calculate_risk(p)
  \/ save_to_sheet(p)
  \/ notify(p)
  \/ ExitSuccess(p)
  \/ ExitFailure(p)
  \/ Reap(p)

Next == Tick \/ \E p \in Procs : Main(p)

\* Non-overlapping runs of the script on a clock that never goes back.
Spec == Init /\ [][Next]_vars

\* ------------------------------------------- the scoring engine alone ----
\* One MungerRiskSystem object fed every combination of the input values;
\* calculate_risk is a public method and may be invoked again on the object.
EngineProc == 1

CallAgain(p) ==
  /\ pc[p] = "open"
  /\ calls[p] < MaxCalls
  /\ pc' = [pc EXCEPT ![p] = "rule1"]
  /\ UNCHANGED <<clockVars, storeVars, outbox, returns, date, objVars, saveVars,
                 runVars>>

\* The object is dropped.
Discard(p) ==
  /\ pc[p] = "open"
  /\ pc' = [pc EXCEPT ![p] = "idle"]
  /\ date' = [date EXCEPT ![p] = 0]
  /\ NewSystem(p)
  /\ UNCHANGED <<clockVars, storeVars, outbox, returns, saveVars, runVars>>

EngineFetch(p) ==
  \/ FetchFred(p, YieldValues, NfciValues)
  \/ FetchYahoo(p, EngineMarkets)

EngineNext ==
  \/ StartRun(EngineProc)
  \/ EngineFetch(EngineProc)
  \/ calculate_risk(EngineProc)
  \/ CallAgain(EngineProc)
  \/ Discard(EngineProc)

EngineSpec == Init /\ [][EngineNext]_vars

\* ------------------------------------------- one run, every snapshot ----
\* The whole script run once, on every combination of the input values.  The
\* spreadsheet it meets is one that earlier runs can have left: a first
\* worksheet never written and a year worksheet that is empty, holds only the
\* header, or holds the header and the record of a run of the same day.
PriorData ==
  LET m == CHOOSE m \in RunMarkets : TRUE
      y == CHOOSE y \in RunYields : TRUE
      n == CHOOSE n \in RunNfcis : TRUE
  IN YahooData(Put(Put(InitData, "yield_spread", y), "nfci", n), m, 1)

PriorRow ==
  LET d == PriorData
      rs == <<Rule1(d), Rule2(d), Rule3(d), Rule4(d), Rule5(d)>>
      sc == rs[1].pts + rs[2].pts + rs[3].pts + rs[4].pts + rs[5].pts
      why == rs[1].why \o rs[2].why \o rs[3].why \o rs[4].why \o rs[5].why
  IN Row(1, d, LevelOf(sc), sc, why)

PriorSheets == {<<>>, <<Header>>, <<Header, PriorRow>>}

SingleInit ==
  /\ NoRunYet
  /\ titles = [t \in Tabs |-> IF t = 0 THEN "Sheet1" ELSE YearTitle(Calendar[1])]
  /\ \E rows \in PriorSheets : sheet = [t \in Tabs |-> IF t = 0 THEN <<>> ELSE rows]

FirstRun(p) == runs = 0 /\ StartRun(p)

FirstRunFails(p) == runs = 0 /\ StartRunFails(p)

SingleNext ==
  \/ FirstRun(EngineProc)
  \/ FirstRunFails(EngineProc)
  \/ EngineFetch(EngineProc)
  \/ FetchYahooFails(EngineProc)
  \/ calculate_risk(EngineProc)
  \/ save_to_sheet(EngineProc)
  \/ notify(EngineProc)
  \/ ExitSuccess(EngineProc)
  \/ ExitFailure(EngineProc)
  \/ Reap(EngineProc)

SingleRunSpec == SingleInit /\ [][SingleNext]_vars

\* ------------------------------------------------- overlapping runs ----
\* Two processes of the script started independently of each other (a
\* scheduled and a manual workflow run) on the same day.
ConcStart(p) == runs < Cardinality(Procs) /\ Begin(p)
  /\ stage' = [stage EXCEPT ![p] = ""]
  /\ pc' = [pc EXCEPT ![p] = "fetch_fred"]

ConcMain(p) ==
  \/ ConcStart(p)
  \/ fetch_data(p)
  \/ calculate_risk(p)
  \/ save_to_sheet(p)
  \/ notify(p)
  \/ ExitSuccess(p)
  \/ ExitFailure(p)
  \/ Reap(p)

ConcNext == \E p \in Procs : ConcMain(p)

ConcSpec == Init /\ [][ConcNext]_vars

\* ============================================================ claims ====
Dates == {Calendar[d] : d \in 1..MaxDate}

\* The cells <<worksheet, row number>> whose column A is the date string ds.
RecordsFor(ds) ==
  {c \in Tabs \X (1..(2 * MaxRuns)) :
     /\ c[2] <= Len(sheet[c[1]])
     /\ sheet[c[1]][c[2]][1] = ds}

RecordsInTab(t, ds) == {c \in RecordsFor(ds) : c[1] = t}

\* Within one worksheet the last-row test does keep the dates unique (also
\* after a run that wrote the header and then raised).
OneRecordPerDatePerTab ==
  \A t \in Tabs, ds \in Dates : Cardinality(RecordsInTab(t, ds)) <= 1

\* C1: after any sequence of non-overlapping runs on a clock that never goes
\* back, failed runs included, the store holds at most one record for each
\* execution date.
C1_OneRecordPerDate ==
  \A ds \in Dates : Cardinality(RecordsFor(ds)) <= 1

\* C2: two save_to_sheet calls in a row for the same date return True and then
\* False, and the store then holds exactly one record for that date.
C2_TrueThenFalse ==
  \A i \in 1..(Len(returns) - 1) :
    (returns[i].date = returns[i + 1].date /\ returns[i].ret = "True")
      => /\ returns[i + 1].ret = "False"
         /\ Cardinality(RecordsFor(returns[i].date)) = 1

\* The kinds of the pushes a run attempted, in order.
Kinds(p) == [i \in DOMAIN sentNow[p] |-> sentNow[p][i][1]]

\* C3 (as claimed): a run pushes a notification if and only if save_to_sheet
\* returned True in it; a run in which it did not return True pushes nothing.
C3_PushIffRecorded ==
  \A p \in Procs :
    pc[p] = "done" => ((sentNow[p] # <<>>) <=> (is_saved[p] = "True"))

\* C3 (amended): a run pushes the summary if and only if save_to_sheet returned
\* True in it; a run in which it returned False pushes nothing; a run that
\* raised pushes no summary and pushes the error text.
C3_SummaryIffRecorded ==
  \A p \in Procs :
    pc[p] = "done" =>
      Kinds(p) = IF is_saved[p] = "True" THEN <<"summary">>
                 ELSE IF is_saved[p] = "False" THEN <<>>
                 ELSE <<"error">>

C3_Witness ==
  \E p \in Procs :
    /\ pc[p] = "done"
    /\ is_saved[p] = "True"
    /\ sentNow[p] = <<<<"summary", TRUE>>>>

\* The summaries the channel accepted for the date string ds.
SummariesFor(ds) ==
  {i \in DOMAIN outbox : outbox[i].kind = "summary" /\ outbox[i].date = ds}

\* C4: over any sequence of non-overlapping runs on one execution date at most
\* one summary is sent for that date.
C4_OneSummaryPerDate ==
  \A ds \in Dates : Cardinality(SummariesFor(ds)) <= 1

\* C5: a finished run has status 0 when save_to_sheet returned (a new record
\* or the same-day skip), and a non-zero status when a step raised; in that
\* case the error text was pushed, delivered or not, before the exit.
C5_ExitStatus ==
  \A p \in Procs :
    pc[p] = "done" =>
      /\ exitCode[p] \in {0, 1}
      /\ (is_saved[p] \in {"True", "False"}) <=> (exitCode[p] = 0)
      /\ (stage[p] \in {"init", "fetch", "save"}) <=> (exitCode[p] # 0)
      /\ exitCode[p] # 0 =>
           /\ sentNow[p] # <<>>
           /\ sentNow[p][Len(sentNow[p])][1] = "error"

C5_Witness ==
  \E p \in Procs :
    /\ pc[p] = "done"
    /\ stage[p] = "save"
    /\ exitCode[p] = 1
    /\ sentNow[p] = <<<<"error", FALSE>>>>

\* ---------------------------------------------- the scoring engine ----
\* An evaluation of p's object has just completed.
Evaluated(p) == pc[p] = "open"

\* C6: the level is the step function of the total score: 0 gives 0, 1..2
\* give 1, 3..4 give 2, 5 and more give 3; it is always one of 0, 1, 2, 3.
C6_LevelSteps ==
  \A p \in Procs :
    Evaluated(p) =>
      /\ level[p] \in 0..3
      /\ score[p] = 0 => level[p] = 0
      /\ score[p] \in 1..2 => level[p] = 1
      /\ score[p] \in 3..4 => level[p] = 2
      /\ score[p] >= 5 => level[p] = 3

C6_Witness ==
  \E p \in Procs : Evaluated(p) /\ score[p] = 4 /\ level[p] = 2

RECURSIVE Repeat(_, _)
Repeat(seq, k) == IF k = 0 THEN <<>> ELSE Repeat(seq, k - 1) \o seq

\* The score and the number of reasons the five rules give a snapshot.
C7_Score(d) ==
  (IF d["yield_spread"] < 0 THEN 3 ELSE 0)
  + (IF d["nfci"] > 50 THEN 2 ELSE IF d["nfci"] > 0 THEN 1 ELSE 0)
  + (IF d["hyg_ief_curr"] < d["hyg_ief_ma60"] THEN 2 ELSE 0)
  + (IF d["vix"] > 3000 THEN 2 ELSE IF d["vix"] > 2000 THEN 1 ELSE 0)
  + (IF d["spy_close"] < d["spy_ma200"] THEN 1 ELSE 0)

C7_Fired(d) ==
  (IF d["yield_spread"] < 0 THEN 1 ELSE 0)
  + (IF d["nfci"] > 0 THEN 1 ELSE 0)
  + (IF d["hyg_ief_curr"] < d["hyg_ief_ma60"] THEN 1 ELSE 0)
  + (IF d["vix"] > 2000 THEN 1 ELSE 0)
  + (IF d["spy_close"] < d["spy_ma200"] THEN 1 ELSE 0)

ScenarioA(d) ==
  /\ d["yield_spread"] = -10
  /\ d["nfci"] = 20
  /\ d["hyg_ief_curr"] = 80
  /\ d["hyg_ief_ma60"] = 75
  /\ d["vix"] = 2500
  /\ d["spy_close"] = 40000
  /\ d["spy_ma200"] = 42000

FirstResultOfA(p) == Evaluated(p) /\ calls[p] = 1 /\ ScenarioA(data[p])

\* C8 (as claimed): Scenario A evaluates to score 8, level 3, five reasons.
C8_ScenarioA_Score8 ==
  \A p \in Procs :
    FirstResultOfA(p) =>
      score[p] = 8 /\ level[p] = 3 /\ Len(reasons[p]) = 5

\* C8 (amended): Scenario A evaluates to score 6 (3+1+0+1+1), level 3 and four
\* reasons: the credit ratio 0.8 is not below its mean 0.75, rule 3 is silent.
C8_ScenarioA_Score6 ==
  \A p \in Procs :
    FirstResultOfA(p) =>
      /\ score[p] = 6
      /\ level[p] = 3
      /\ Len(reasons[p]) = 4
      /\ \A i \in DOMAIN reasons[p] :
           reasons[p][i][2] # "credit spread weakening"

C8_Witness == \E p \in Procs : FirstResultOfA(p) /\ score[p] = 6

\* The step of calculate_risk that applies rule n.
RuleStep(p, here, next) == pc[p] = here /\ pc'[p] = next
Adds(p, n, why) ==
  /\ score'[p] = score[p] + n
  /\ reasons'[p] = reasons[p] \o why

\* C9 (as claimed): the volatility rule adds nothing at vix exactly 30, adds 2
\* just above 30, and adds nothing at vix exactly 20.
C9_VixBoundaries ==
  [][\A p \in Procs :
       RuleStep(p, "rule4", "rule5") =>
         /\ data[p]["vix"] = 3000 => Adds(p, 0, <<>>)
         /\ data[p]["vix"] = 3001 => score'[p] = score[p] + 2
         /\ data[p]["vix"] = 2000 => Adds(p, 0, <<>>)]_vars

\* C9 (amended): at vix exactly 30 the volatility rule adds 1 with the reason
\* of the lower tier (30 is above 20); just above 30 it adds 2 with the reason
\* of the upper tier; at exactly 20 it adds nothing and just above 20 it adds 1.
C9_VixTiers ==
  [][\A p \in Procs :
       RuleStep(p, "rule4", "rule5") =>
         /\ data[p]["vix"] = 3000 =>
              Adds(p, 1, <<<<"yellow", "elevated hedging demand">>>>)
         /\ data[p]["vix"] = 3001 =>
              Adds(p, 2, <<<<"red", "extreme fear", <<"", 300>>>>>>)
         /\ data[p]["vix"] = 2000 => Adds(p, 0, <<>>)
         /\ data[p]["vix"] = 2001 =>
              Adds(p, 1, <<<<"yellow", "elevated hedging demand">>>>)]_vars

C9_Witness ==
  \E p \in Procs :
    /\ pc[p] = "rule5"
    /\ calls[p] = 1
    /\ data[p]["vix"] = 3000
    /\ reasons[p] = <<<<"yellow", "elevated hedging demand">>>>
    /\ score[p] = 1

\* C10 (as claimed): at financialConditionsIndex exactly 0.5 the financial
\* stress rule adds nothing to the score and no reason.
C10_HalfFiresNeither ==
  [][\A p \in Procs :
       (RuleStep(p, "rule2", "rule3") /\ data[p]["nfci"] = 50)
         => Adds(p, 0, <<>>)]_vars

\* C10 (amended): at exactly 0.5 the first branch (> 0.5) does not fire and the
\* second (> 0) does: the rule adds 1 and the reason of mild tightening.
C10_HalfFiresMild ==
  [][\A p \in Procs :
       (RuleStep(p, "rule2", "rule3") /\ data[p]["nfci"] = 50)
         => Adds(p, 1, <<<<"yellow", "mild tightening">>>>)]_vars

C10_Witness ==
  \E p \in Procs :
    /\ pc[p] = "rule3"
    /\ calls[p] = 1
    /\ data[p]["nfci"] = 50
    /\ reasons[p] = <<<<"yellow", "mild tightening">>>>
    /\ score[p] = 1

\* The rule a reason line comes from, by its text.
RuleOfReason(r) ==
  CASE r[2] = "yield curve inverted" -> 1
    [] r[2] \in {"tight financial conditions", "mild tightening"} -> 2
    [] r[2] = "credit spread weakening" -> 3
    [] r[2] \in {"extreme fear", "elevated hedging demand"} -> 4
    [] r[2] = "benchmark below long-term trend" -> 5
    [] OTHER -> 0

\* C11: whatever the inputs, at every point of a run the reasons list holds
\* at most one reason per rule and the reasons stand in rule order 1 to 5
\* (the rule numbers along the list are strictly increasing).
C11_ReasonsInRuleOrder ==
  \A p \in Procs :
    /\ \A i \in DOMAIN reasons[p] : RuleOfReason(reasons[p][i]) \in 1..5
    /\ \A i, j \in DOMAIN reasons[p] :
         i < j => RuleOfReason(reasons[p][i]) < RuleOfReason(reasons[p][j])

\* All five rules fired in one evaluation.
C11_Witness ==
  \E p \in Procs : Evaluated(p) /\ Len(reasons[p]) = 5 /\ score[p] = 10

IsPrefix(a, b) == Len(a) <= Len(b) /\ SubSeq(b, 1, Len(a)) = a

\* C12: the ledger is append-only: no step of any run, whatever the run's
\* outcome, changes or moves a row already written; what a worksheet held
\* before is a prefix of what it holds after, and no worksheet is renamed.
C12_AppendOnly ==
  [][/\ titles' = titles
     /\ \A t \in Tabs : IsPrefix(sheet[t], sheet'[t])]_vars

\* Two runs have recorded into one worksheet and a later run has failed.
C12_Witness ==
  /\ \E t \in Tabs : Len(sheet[t]) >= 3
  /\ \E p \in Procs : pc[p] = "done" /\ exitCode[p] = 1

MacroDefaulted(p) ==
  /\ Has(data[p], "yield_spread") /\ data[p]["yield_spread"] = 0
  /\ Has(data[p], "nfci") /\ data[p]["nfci"] = 0

\* C13: a failed FRED series does not abort the run: from either get_series
\* call control never reaches the except clause of __main__, the except clause
\* of fetch_data stores the default 0 and goes on to the market download, and
\* nothing is marked as failed.
C13_MacroFailureRecovered ==
  [][\A p \in Procs :
       /\ (pc[p] \in {"fetch_fred", "fetch_nfci"} /\ pc'[p] # pc[p])
            => pc'[p] \in {"fetch_nfci", "fetch_yahoo", "fred_except"}
       /\ (pc[p] = "fred_except" /\ pc'[p] # pc[p])
            => /\ pc'[p] = "fetch_yahoo"
               /\ stage'[p] = stage[p]
               /\ Has(data'[p], "yield_spread") /\ data'[p]["yield_spread"] = 0
               /\ Has(data'[p], "nfci") /\ data'[p]["nfci"] = 0]_vars

\* A run whose FRED fetch failed (the series never return 0 here) was scored,
\* recorded and notified like any other.
C13_Witness ==
  \E p \in Procs :
    /\ pc[p] = "success"
    /\ MacroDefaulted(p)
    /\ calls[p] = 1
    /\ is_saved[p] = "True"
    /\ sentNow[p] = <<<<"summary", TRUE>>>>

Indicators ==
  {"yield_spread", "nfci", "us_date", "vix", "spy_close", "spy_ma200",
   "hyg_ief_curr", "hyg_ief_ma60"}

Scoring == {"rule1", "rule2", "rule3", "rule4", "rule5", "classify"}

Fetching == {"fetch_fred", "fetch_nfci", "fred_except", "fetch_yahoo"}

\* The run of p has been aborted by the market download.
MarketFailed(p) == stage[p] = "fetch"

\* C14: a failed market download aborts the run before scoring and recording:
\* calculate_risk only ever works on a snapshot holding every indicator, a run
\* aborted by the download has evaluated nothing and never entered
\* save_to_sheet, and no step of it, from its start to its exit, changes the
\* spreadsheet.
C14_MarketFailureAborts ==
  /\ [](\A p \in Procs :
          /\ pc[p] \in Scoring => \A k \in Indicators : Has(data[p], k)
          /\ MarketFailed(p) =>
               /\ pc[p] \in {"except", "done"}
               /\ calls[p] = 0 /\ results[p] = <<>>
               /\ is_saved[p] = "None" /\ all_records[p] = <<>>
               /\ (pc[p] = "done" => exitCode[p] = 1))
  /\ [][\A p \in Procs :
          (pc[p] \in Fetching \/ MarketFailed(p)) => sheet' = sheet]_vars

\* A run on a spreadsheet that already holds a record was aborted by the
\* market download.
C14_Witness ==
  \E p \in Procs :
    /\ pc[p] = "done" /\ MarketFailed(p) /\ exitCode[p] = 1
    /\ sentNow[p] # <<>>
    /\ \E t \in Tabs : Len(sheet[t]) >= 2

\* The run of p attempted a push of this kind and the channel failed.
PushFailed(p, kind) ==
  \E i \in DOMAIN sentNow[p] : sentNow[p][i] = <<kind, FALSE>>

\* C15: a failed push never changes the outcome of the run: a run whose
\* summary push failed still ends with status 0, save_to_sheet having returned
\* True and its record in the spreadsheet; a run whose error push failed still
\* ends with a status other than 0.
C15_PushFailureIgnored ==
  \A p \in Procs :
    pc[p] = "done" =>
      /\ PushFailed(p, "summary") =>
           /\ exitCode[p] = 0
           /\ is_saved[p] = "True"
           /\ RecordsFor(get_today_str(date[p])) # {}
      /\ PushFailed(p, "error") => exitCode[p] # 0

\* A run appended its record, its summary push failed, and it ended with 0.
C15_Witness ==
  \E p \in Procs :
    /\ pc[p] = "done" /\ PushFailed(p, "summary")
    /\ exitCode[p] = 0 /\ is_saved[p] = "True"

\* The summary of the run of p has just been delivered.
SummaryDelivered(p) ==
  /\ pc[p] = "success"
  /\ sentNow[p] = <<<<"summary", TRUE>>>>
  /\ outbox # <<>>

LastMessage == outbox[Len(outbox)]

\* C16: the summary is determined by the result of the evaluation: it shows
\* the level and the score, its body is the stable-market text exactly when
\* there are no reasons and otherwise the reasons in their order, and it ends
\* with the advisory exactly when the level is 2 or more.
C16_SummaryFromResult ==
  \A p \in Procs :
    SummaryDelivered(p) =>
      LET msg == LastMessage IN
      /\ msg.kind = "summary"
      /\ msg.level = level[p] /\ msg.score = score[p]
      /\ (\E i \in DOMAIN msg.lines : msg.lines[i] = StableText)
           <=> (reasons[p] = <<>>)
      /\ reasons[p] # <<>> => msg.lines = reasons[p]
      /\ reasons[p] = <<>> => msg.lines = <<StableText>>
      /\ (msg.suffix = <<Advisory>>) <=> (level[p] >= 2)
      /\ (msg.suffix = <<>>) <=> (level[p] < 2)

\* A delivered summary of a run that found nothing: stable text, no advisory.
C16_Witness ==
  \E p \in Procs :
    /\ SummaryDelivered(p)
    /\ reasons[p] = <<>> /\ level[p] = 0
    /\ LastMessage.lines = <<StableText>>
    /\ LastMessage.suffix = <<>>

\* save_to_sheet has returned in the run of p, which is not over yet.
Returned(p) == pc[p] \in {"notify", "success"}

\* p and q run on the same date, chose the same worksheet, and each read it
\* before the other appended: neither saw a record of the date in the last row.
BothReadFirst(p, q) ==
  /\ p # q
  /\ Returned(p) /\ Returned(q)
  /\ date[p] = date[q]
  /\ ws[p] = ws[q]
  /\ ~AlreadyExecuted(all_records[p], get_today_str(date[p]))
  /\ ~AlreadyExecuted(all_records[q], get_today_str(date[q]))

\* C17: the test and the append of save_to_sheet are not atomic: two
\* overlapping runs of one date that both read the worksheet before either
\* appended both return True, the worksheet then holds two records of the
\* date, and each run pushes a summary.
C17_BothRecord ==
  \A p, q \in Procs :
    BothReadFirst(p, q) =>
      /\ is_saved[p] = "True" /\ is_saved[q] = "True"
      /\ Cardinality(RecordsInTab(ws[p], get_today_str(date[p]))) >= 2
      /\ pc[p] = "success" => Kinds(p) = <<"summary">>
      /\ pc[q] = "success" => Kinds(q) = <<"summary">>

\* Both runs have recorded and both summaries have been delivered.
C17_Witness ==
  \E p, q \in Procs :
    /\ BothReadFirst(p, q)
    /\ pc[p] = "success" /\ pc[q] = "success"
    /\ all_records[p] = <<>> /\ all_records[q] = <<>>
    /\ Cardinality(SummariesFor(get_today_str(date[p]))) = 2

\* What the step of rule n just taken by p added to the score and the reasons.
AddsOneBranch(p, n) ==
  LET pts == score'[p] - score[p]
      new == Len(reasons'[p]) - Len(reasons[p])
  IN /\ pts \in {0, 1, 2}
     /\ new \in {0, 1}
     /\ (new = 0) <=> (pts = 0)
     /\ IsPrefix(reasons[p], reasons'[p])
     /\ new = 1 => RuleOfReason(reasons'[p][Len(reasons'[p])]) = n

\* C18: for every snapshot at most one branch of rule 2 and at most one branch
\* of rule 4 fires: the rule adds 0, 1 or 2 to the score and at most one
\* reason, a reason exactly when it adds points.
C18_OneBranchPerRule ==
  [][\A p \in Procs :
       /\ RuleStep(p, "rule2", "rule3") => AddsOneBranch(p, 2)
       /\ RuleStep(p, "rule4", "rule5") => AddsOneBranch(p, 4)]_vars

\* Both thresholds of rule 2 and of rule 4 are passed and only the upper
\* branch of each has fired.
C18_Witness ==
  \E p \in Procs :
    /\ pc[p] = "rule5" /\ calls[p] = 1
    /\ data[p]["nfci"] > 50 /\ data[p]["vix"] > 3000
    /\ score[p] = 4
    /\ Len(reasons[p]) = 2
    /\ reasons[p][1][2] = "tight financial conditions"
    /\ reasons[p][2][2] = "extreme fear"

IsHeader(r) == r[1] = Header[1] /\ r = Header

\* A record: column A is an execution date, and the row has the six columns.
IsRecord(r) == r[1] \in Dates /\ Len(r) = Len(Header)

\* C19: after any sequence of non-overlapping runs on a new spreadsheet, a
\* run that raised between the two appends included, every worksheet that
\* holds anything has the header as its first row and records in all the
\* others: the header is written when and only when the worksheet is empty,
\* before the record, and never a second time.
C19_HeaderFirstAndOnce ==
  \A t \in Tabs :
    \A i \in DOMAIN sheet[t] :
      IF i = 1 THEN IsHeader(sheet[t][i]) ELSE IsRecord(sheet[t][i])

\* A run read a worksheet holding only the header (an earlier run raised
\* before its record was appended) and appended its record below it.
C19_Witness ==
  \E p \in Procs :
    /\ pc[p] = "notify" /\ is_saved[p] = "True"
    /\ all_records[p] = <<Header>>
    /\ Len(sheet[ws[p]]) = 2
    /\ IsHeader(sheet[ws[p]][1]) /\ IsRecord(sheet[ws[p]][2])

\* C20: when either get_series call raises, the except clause sets both
\* yield_spread and nfci to 0, a yield_spread already stored by the first call
\* included; the market download leaves the two fields alone, and on them
\* rules 1 and 2 add nothing to the score and the reasons.
C20_BothMacroFieldsDefaulted ==
  [][\A p \in Procs :
       /\ RuleStep(p, "fred_except", "fetch_yahoo") => MacroDefaulted(p)'
       /\ (RuleStep(p, "fetch_yahoo", "rule1") /\ MacroDefaulted(p))
            => MacroDefaulted(p)'
       /\ (RuleStep(p, "rule1", "rule2") /\ MacroDefaulted(p))
            => Adds(p, 0, <<>>)
       /\ (RuleStep(p, "rule2", "rule3") /\ MacroDefaulted(p))
            => Adds(p, 0, <<>>)]_vars

\* A run whose FRED fetch failed (the series never return 0 here) has passed
\* rules 1 and 2 with nothing scored.
C20_Witness ==
  \E p \in Procs :
    /\ pc[p] = "rule3" /\ calls[p] = 1
    /\ MacroDefaulted(p)
    /\ score[p] = 0 /\ reasons[p] = <<>>

====
